---- MODULE Spec2Model ----
(***************************************************************************)
(* The utilities of bennu/commons-js: the Chilean RUT validator           *)
(* (validate-chilean-rut.ts), the minutely two-factor code generator       *)
(* (two-factor-generator.ts) and the password validator                    *)
(* (password-validator.ts).  Each has its own specification; the variables *)
(* of the other two stay at their initial values.                          *)
(*                                                                         *)
(* A JavaScript string is a sequence of one-character strings.  An input   *)
(* of type `unknown` is a record [kind, text, num]: kind says which        *)
(* JavaScript value it is, text is the content of a string, num the value  *)
(* of a number (a non-negative integer) or 1/0 for the booleans true/false.*)
(* A nullable string (string | null) or an optional field (rutNumber?) is  *)
(* << >> when null/absent and <<s>> when it is the string s.               *)
(***************************************************************************)
EXTENDS Integers, Sequences, FiniteSets, TLC

\* the RUT validator: the input, the function called, what it returned and
\* whether it raised
VARIABLES rut, op, ret, threw

\* the two-factor generator: the wall clock in America/Santiago, the last call
\* made in the current minute (its length, the code returned, the message of
\* the error raised) and an earlier call that returned a code
VARIABLES now, length, code, error, earlier

\* the password validator: the arguments, the function called and its result
VARIABLES password, confirmPassword, level, pwOp, pwRet

rutVars == <<rut, op, ret, threw>>

tfVars == <<now, length, code, error, earlier>>

pwVars == <<password, confirmPassword, level, pwOp, pwRet>>

vars == <<rutVars, tfVars, pwVars>>

(***************************************************************************)
(* Bounds of the explored inputs.                                          *)
(***************************************************************************)
\* the free characters that end a text input
MaxFree == 3
\* the longest run of the pad digit in front of the free characters
MaxPad == 21

(***************************************************************************)
(* Characters and strings.                                                 *)
(***************************************************************************)
DigitChars == <<"0", "1", "2", "3", "4", "5", "6", "7", "8", "9">>

LowerCase == <<"a", "b", "c", "d", "e", "f", "g", "h", "i", "j", "k", "l", "m",
               "n", "o", "p", "q", "r", "s", "t", "u", "v", "w", "x", "y", "z">>

UpperCase == <<"A", "B", "C", "D", "E", "F", "G", "H", "I", "J", "K", "L", "M",
               "N", "O", "P", "Q", "R", "S", "T", "U", "V", "W", "X", "Y", "Z">>

\* the characters matched by \s that the inputs use
WhiteSpace == {" "}

Range(s) == {s[i] : i \in 1..Len(s)}

IndexOf(s, c) == CHOOSE i \in 1..Len(s) : s[i] = c

DigitSet == Range(DigitChars)

DigitValue == [c \in DigitSet |-> IndexOf(DigitChars, c) - 1]

UpperOf == [c \in Range(LowerCase) |-> UpperCase[IndexOf(LowerCase, c)]]

\* \d
IsDigit(c) == c \in DigitSet

\* parseInt(c, 10) of one digit character
parseInt(c) == DigitValue[c]

\* the slip /^\d*$/: the empty text passes
AllDigitsOrEmpty(s) == \A i \in 1..Len(s) : IsDigit(s[i])

\* /^\d+$/.test(s)
AllDigits(s) == Len(s) >= 1 /\ \A i \in 1..Len(s) : IsDigit(s[i])

\* String.prototype.toUpperCase, character by character
UpperChar(c) == IF c \in DOMAIN UpperOf THEN UpperOf[c] ELSE c

toUpperCase(s) == [i \in 1..Len(s) |-> UpperChar(s[i])]

\* the slip /[.-]/g: whitespace is kept
FormattingCharsNoSpace == {".", "-"}

\* s.replace(/[.-\s]/g, ''): the class is '.', '-' and the whitespace characters
FormattingChars == {".", "-"} \cup WhiteSpace

KeptChar(c) == c \notin FormattingChars

RemoveFormatting(s) == SelectSeq(s, KeptChar)

\* /ab/.test(s) for a pattern of two literal characters
HasPair(s, a, b) == \E i \in 1..(Len(s) - 1) : s[i] = a /\ s[i + 1] = b

\* s.split('').reverse()
reverse(s) == [i \in 1..Len(s) |-> s[Len(s) + 1 - i]]

\* the decimal digits of a non-negative integer, as String(n) writes them
RECURSIVE Decimal(_)
Decimal(n) ==
  IF n < 10 THEN <<DigitChars[n + 1]>>
  ELSE Decimal(n \div 10) \o <<DigitChars[(n % 10) + 1]>>

(***************************************************************************)
(* Input values.                                                           *)
(***************************************************************************)
Str(s) == [kind |-> "string", text |-> s, num |-> 0]

Num(n) == [kind |-> "number", text |-> << >>, num |-> n]

\* String(Symbol("test"))
SymbolText ==
  <<"S", "y", "m", "b", "o", "l", "(", "t", "e", "s", "t", ")">>

\* String(d) of a Date d: the text of the epoch in UTC stands for the texts
\* of all dates
DateText ==
  <<"T", "h", "u", " ", "J", "a", "n", " ", "0", "1", " ", "1",
  "9", "7", "0", " ", "0", "0", ":", "0", "0", ":", "0", "0",
  " ", "G", "M", "T", "+", "0", "0", "0", "0", " ", "(", "C",
  "o", "o", "r", "d", "i", "n", "a", "t", "e", "d", " ", "U",
  "n", "i", "v", "e", "r", "s", "a", "l", " ", "T", "i", "m",
  "e", ")">>

Other(k) == [kind |-> k, text |-> << >>, num |-> 0]

\* String(x): [threw, val]; threw is TRUE when the conversion raises (an
\* object whose toString throws)
String(x) ==
  CASE x.kind = "string"    -> [threw |-> FALSE, val |-> x.text]
    [] x.kind = "number"    -> [threw |-> FALSE, val |-> Decimal(x.num)]
    [] x.kind = "boolean"   -> [threw |-> FALSE,
                                val |-> IF x.num = 1 THEN <<"t", "r", "u", "e">>
                                        ELSE <<"f", "a", "l", "s", "e">>]
    [] x.kind = "null"      -> [threw |-> FALSE, val |-> <<"n", "u", "l", "l">>]
    [] x.kind = "undefined" -> [threw |-> FALSE,
                                val |-> <<"u", "n", "d", "e", "f", "i", "n", "e", "d">>]
    [] x.kind = "object"    -> [threw |-> FALSE,
                                val |-> <<"[", "o", "b", "j", "e", "c", "t", " ",
                                          "O", "b", "j", "e", "c", "t", "]">>]
    [] x.kind = "array"     -> [threw |-> FALSE, val |-> << >>]
    [] x.kind = "throws"    -> [threw |-> TRUE, val |-> << >>]
    [] x.kind = "symbol"    -> [threw |-> FALSE, val |-> SymbolText]
    [] x.kind = "date"      -> [threw |-> FALSE, val |-> DateText]

(***************************************************************************)
(* cleanRut                                                                *)
(***************************************************************************)
\* the slip of leaving out the null check: String(null) is cleaned
cleanRutNoNullCheck(x) ==
  LET rutString == String(x)
  IN  IF rutString.threw THEN << >>
      ELSE toUpperCase(RemoveFormatting(rutString.val))

cleanRut(x) ==
  IF x.kind \in {"null", "undefined"} THEN << >>
  ELSE LET rutString == String(x)
       IN  IF rutString.threw THEN << >>
           ELSE toUpperCase(RemoveFormatting(rutString.val))

(***************************************************************************)
(* calculateVerificationDigit                                              *)
(***************************************************************************)
\* the slip of a mistyped weight in the second cycle
multipliersMistyped == <<2, 3, 4, 5, 6, 7, 2, 3, 4, 5, 7, 7>>

multipliers == <<2, 3, 4, 5, 6, 7, 2, 3, 4, 5, 6, 7>>

\* the for loop: sum += parseInt(rutDigits[i], 10) * multipliers[i % multipliers.length]
\* (the value of sum after the iterations 0 .. n - 1)
WeightedSum(rutDigits, n) ==
  LET sum[i \in 0..n] ==
        IF i = 0 THEN 0
        ELSE sum[i - 1]
             + parseInt(rutDigits[i]) * multipliers[((i - 1) % Len(multipliers)) + 1]
  IN  sum[n]

\* [threw, val]: String(rutNumber) is not guarded by a try
calculateVerificationDigit(rutNumber) ==
  LET rutString == String(rutNumber)
  IN  IF rutString.threw THEN [threw |-> TRUE, val |-> << >>]
      ELSE IF ~AllDigits(rutString.val) THEN [threw |-> FALSE, val |-> << >>]
      ELSE IF Len(rutString.val) > 20 THEN [threw |-> FALSE, val |-> << >>]
      ELSE LET rutDigits == reverse(rutString.val)
               sum == WeightedSum(rutDigits, Len(rutDigits))
               remainder == sum % 11
               verificationDigit == 11 - remainder
           IN  [threw |-> FALSE,
                val |-> IF verificationDigit = 11 THEN <<"0">>
                        ELSE IF verificationDigit = 10 THEN <<"K">>
                        ELSE Decimal(verificationDigit)]

(***************************************************************************)
(* isValidRut                                                              *)
(***************************************************************************)
\* /^(\d+)([K\d])$/.test(s)
rutRegex(s) ==
  /\ Len(s) >= 2
  /\ \A i \in 1..(Len(s) - 1) : IsDigit(s[i])
  /\ (IsDigit(s[Len(s)]) \/ s[Len(s)] = "K")

\* match[1] and match[2] of a string that matches rutRegex
Match1(s) == SubSeq(s, 1, Len(s) - 1)

Match2(s) == <<s[Len(s)]>>

\* the slip of leaving out the pattern /-\./
MalformedThreePatterns(rutString) ==
  \/ HasPair(rutString, "-", "-")
  \/ HasPair(rutString, ".", ".")
  \/ HasPair(rutString, ".", "-")

\* the four malformed separator patterns, tested on the original text
Malformed(rutString) ==
  \/ HasPair(rutString, "-", "-")
  \/ HasPair(rutString, ".", ".")
  \/ HasPair(rutString, ".", "-")
  \/ HasPair(rutString, "-", ".")

\* the slip /[-]/: a '.' is no separator
hasHyphen(rutString) == \E i \in 1..Len(rutString) : rutString[i] = "-"

\* the slip /[-.\s]/: whitespace counted as a separator
hasSeparatorOrSpace(rutString) ==
  \E i \in 1..Len(rutString) : rutString[i] \in {"-", "."} \cup WhiteSpace

\* /[-.]/.test(rutString)
hasSeparator(rutString) == \E i \in 1..Len(rutString) : rutString[i] \in {"-", "."}

\* the slip rutNumber.length <= 8
AmbiguousUpTo8(rutString, rutNumber) ==
  ~hasSeparator(rutString) /\ Len(rutNumber) <= 8

\* the slip of leaving the ambiguity rule out, as the earlier validator does
NeverAmbiguous(rutString, rutNumber) == FALSE

\* the slip rutNumber.length < 7
AmbiguousBelow7(rutString, rutNumber) ==
  ~hasSeparator(rutString) /\ Len(rutNumber) < 7

\* !hasSeparator && rutNumber.length <= 7
Ambiguous(rutString, rutNumber) ==
  ~hasSeparator(rutString) /\ Len(rutNumber) <= 7

\* the slip cleanedRut.length >= 20
TooLongFrom20(cleanedRut) == Len(cleanedRut) >= 20

\* the slip cleanedRut.length > 21
TooLongAbove21(cleanedRut) == Len(cleanedRut) > 21

\* cleanedRut.length > 20
TooLong(cleanedRut) == Len(cleanedRut) > 20

\* the slip of applying the ambiguity rule only when the argument asks for it
isValidRutAmbiguityOnRequest(x, requireVerificationDigit) ==
  LET rutString == String(x)
  IN  IF rutString.threw THEN FALSE
      ELSE IF Malformed(rutString.val) THEN FALSE
      ELSE LET cleanedRut == cleanRut(x)
           IN  IF Len(cleanedRut) < 2 THEN FALSE
               ELSE IF TooLong(cleanedRut) THEN FALSE
               ELSE IF ~rutRegex(cleanedRut) THEN FALSE
               ELSE LET rutNumber == Match1(cleanedRut)
                        providedVerificationDigit == Match2(cleanedRut)
                        calculatedVerificationDigit ==
                          calculateVerificationDigit(Str(rutNumber)).val
                    IN  IF Len(rutNumber) > 20 THEN FALSE
                        ELSE IF calculatedVerificationDigit = << >> THEN FALSE
                        ELSE IF requireVerificationDigit
                                  /\ Ambiguous(rutString.val, rutNumber) THEN FALSE
                        ELSE calculatedVerificationDigit = providedVerificationDigit

isValidRut(x, requireVerificationDigit) ==
  LET rutString == String(x)
  IN  IF rutString.threw THEN FALSE
      ELSE IF Malformed(rutString.val) THEN FALSE
      ELSE LET cleanedRut == cleanRut(x)
           IN  IF Len(cleanedRut) < 2 THEN FALSE
               ELSE IF TooLong(cleanedRut) THEN FALSE
               ELSE IF ~rutRegex(cleanedRut) THEN FALSE
               ELSE LET rutNumber == Match1(cleanedRut)
                        providedVerificationDigit == Match2(cleanedRut)
                        calculatedVerificationDigit ==
                          calculateVerificationDigit(Str(rutNumber)).val
                    IN  IF Len(rutNumber) > 20 THEN FALSE
                        ELSE IF calculatedVerificationDigit = << >> THEN FALSE
                        ELSE IF Ambiguous(rutString.val, rutNumber) THEN FALSE
                        ELSE calculatedVerificationDigit = providedVerificationDigit

(***************************************************************************)
(* formatRut                                                               *)
(***************************************************************************)
\* s.slice(-3) and s.slice(0, -3)
SliceLast3(s) == SubSeq(s, IF Len(s) > 3 THEN Len(s) - 2 ELSE 1, Len(s))

SliceButLast3(s) == SubSeq(s, 1, Len(s) - 3)

\* parts.join(sep)
RECURSIVE join(_, _)
join(parts, sep) ==
  IF parts = << >> THEN << >>
  ELSE IF Len(parts) = 1 THEN parts[1]
  ELSE parts[1] \o sep \o join(Tail(parts), sep)

\* "Extract last 3 digits": the first if/else
LastGroup(rutNumber) ==
  IF Len(rutNumber) > 3
  THEN [parts |-> <<SliceLast3(rutNumber)>>, remaining |-> SliceButLast3(rutNumber)]
  ELSE [parts |-> <<rutNumber>>, remaining |-> << >>]

\* the slip of an if in place of the while: one middle group at most
OneMiddleGroup(st) ==
  IF Len(st.remaining) > 3
  THEN [parts |-> <<SliceLast3(st.remaining)>> \o st.parts,
        remaining |-> SliceButLast3(st.remaining)]
  ELSE st

\* "Extract middle groups of 3": the while loop
RECURSIVE MiddleGroups(_)
MiddleGroups(st) ==
  IF Len(st.remaining) > 3
  THEN MiddleGroups([parts |-> <<SliceLast3(st.remaining)>> \o st.parts,
                     remaining |-> SliceButLast3(st.remaining)])
  ELSE st

\* the slip of leaving the last if out: the leading digits are dropped
NoFirstGroup(st) == st.parts

\* "Add remaining digits": the last if
FirstGroup(st) ==
  IF st.remaining # << >> THEN <<st.remaining>> \o st.parts ELSE st.parts

\* formatRut after its validity check: the match and the grouping
FormatCleaned(cleanedRut) ==
  IF ~rutRegex(cleanedRut) THEN << >>
  ELSE LET rutNumber == Match1(cleanedRut)
           verificationDigit == Match2(cleanedRut)
           parts == FirstGroup(MiddleGroups(LastGroup(rutNumber)))
       IN  <<join(parts, <<".">>) \o <<"-">> \o verificationDigit>>

\* the slip of validating the cleaned text, as the earlier formatRut did
formatRutOfCleaned(x, requireVerificationDigit) ==
  IF ~isValidRut(Str(cleanRut(x)), requireVerificationDigit) THEN << >>
  ELSE FormatCleaned(cleanRut(x))

formatRut(x, requireVerificationDigit) ==
  IF ~isValidRut(x, requireVerificationDigit) THEN << >>
  ELSE FormatCleaned(cleanRut(x))

(***************************************************************************)
(* validateRut                                                             *)
(***************************************************************************)
\* the slip of formatting the cleaned text, as the earlier validateRut did
validateRutFormatsCleaned(x, requireVerificationDigit) ==
  LET cleanedRut == cleanRut(x)
      isValid == isValidRut(x, requireVerificationDigit)
      invalid == [isValid |-> FALSE, formatted |-> << >>, raw |-> cleanedRut,
                  rutNumber |-> << >>, verificationDigit |-> << >>]
  IN  IF ~isValid THEN invalid
      ELSE IF ~rutRegex(cleanedRut) THEN invalid
      ELSE [isValid |-> TRUE,
            formatted |-> formatRut(Str(cleanedRut), requireVerificationDigit),
            raw |-> cleanedRut,
            rutNumber |-> <<Match1(cleanedRut)>>,
            verificationDigit |-> <<Match2(cleanedRut)>>]

\* the slip rutNumber: cleanedRut, the whole canonical text
validateRutNumberWhole(x, requireVerificationDigit) ==
  LET cleanedRut == cleanRut(x)
      isValid == isValidRut(x, requireVerificationDigit)
      invalid == [isValid |-> FALSE, formatted |-> << >>, raw |-> cleanedRut,
                  rutNumber |-> << >>, verificationDigit |-> << >>]
  IN  IF ~isValid THEN invalid
      ELSE IF ~rutRegex(cleanedRut) THEN invalid
      ELSE [isValid |-> TRUE,
            formatted |-> formatRut(x, requireVerificationDigit),
            raw |-> cleanedRut,
            rutNumber |-> <<cleanedRut>>,
            verificationDigit |-> <<Match2(cleanedRut)>>]

\* the slip raw: String(rut), the text as it was passed
validateRutRawText(x, requireVerificationDigit) ==
  LET cleanedRut == cleanRut(x)
      isValid == isValidRut(x, requireVerificationDigit)
      invalid == [isValid |-> FALSE, formatted |-> << >>, raw |-> cleanedRut,
                  rutNumber |-> << >>, verificationDigit |-> << >>]
  IN  IF ~isValid THEN invalid
      ELSE IF ~rutRegex(cleanedRut) THEN invalid
      ELSE [isValid |-> TRUE,
            formatted |-> formatRut(x, requireVerificationDigit),
            raw |-> String(x).val,
            rutNumber |-> <<Match1(cleanedRut)>>,
            verificationDigit |-> <<Match2(cleanedRut)>>]

validateRut(x, requireVerificationDigit) ==
  LET cleanedRut == cleanRut(x)
      isValid == isValidRut(x, requireVerificationDigit)
      invalid == [isValid |-> FALSE, formatted |-> << >>, raw |-> cleanedRut,
                  rutNumber |-> << >>, verificationDigit |-> << >>]
  IN  IF ~isValid THEN invalid
      ELSE IF ~rutRegex(cleanedRut) THEN invalid
      ELSE [isValid |-> TRUE,
            formatted |-> formatRut(x, requireVerificationDigit),
            raw |-> cleanedRut,
            rutNumber |-> <<Match1(cleanedRut)>>,
            verificationDigit |-> <<Match2(cleanedRut)>>]

(***************************************************************************)
(* Exceptions: which calls let an exception leave the function.  The only  *)
(* statement of the validator that can raise is String(rut), for a value   *)
(* whose conversion to text throws.                                        *)
(***************************************************************************)
\* the slip of leaving the try out: what is raised inside leaves the function
NoTry(raised) == raised

\* try { ... } catch (error) { return <value> }: whatever is raised inside the
\* block is caught, and the handler returns a value
TryCatch(raised) == FALSE

\* the null check comes first; String(rut) is inside the try
cleanRutRaises(x) ==
  x.kind \notin {"null", "undefined"} /\ TryCatch(String(x).threw)

\* the whole body is inside the try: String(rut), cleanRut(rut) and
\* calculateVerificationDigit(rutNumber) of a string
isValidRutRaises(x, requireVerificationDigit) ==
  TryCatch(String(x).threw \/ cleanRutRaises(x))

\* no try: isValidRut(rut) first, cleanRut(rut) only for an input it accepted
formatRutRaises(x, requireVerificationDigit) ==
  \/ isValidRutRaises(x, requireVerificationDigit)
  \/ (cleanRutRaises(x) /\ isValidRut(x, requireVerificationDigit))

\* no try: cleanRut(rut), isValidRut(rut), formatRut(rut) for a valid input
validateRutRaises(x, requireVerificationDigit) ==
  \/ cleanRutRaises(x)
  \/ isValidRutRaises(x, requireVerificationDigit)
  \/ (formatRutRaises(x, requireVerificationDigit)
        /\ isValidRut(x, requireVerificationDigit))

(***************************************************************************)
(* The earlier validator, src/validate-chilean-rut.ts: no separator check  *)
(* and no ambiguity rule; formatRut validates the cleaned text.            *)
(***************************************************************************)
legacyIsValidRut(x) ==
  LET cleanedRut == cleanRut(x)
  IN  IF Len(cleanedRut) < 2 THEN FALSE
      ELSE IF Len(cleanedRut) > 20 THEN FALSE
      ELSE IF ~rutRegex(cleanedRut) THEN FALSE
      ELSE LET rutNumber == Match1(cleanedRut)
               providedVerificationDigit == Match2(cleanedRut)
               calculatedVerificationDigit ==
                 calculateVerificationDigit(Str(rutNumber)).val
           IN  IF Len(rutNumber) > 20 THEN FALSE
               ELSE IF calculatedVerificationDigit = << >> THEN FALSE
               ELSE calculatedVerificationDigit = providedVerificationDigit

\* the build of the earlier validator, src/dist/validate-chilean-rut.js
distIsValidRut(x) ==
  LET cleanedRut == cleanRut(x)
  IN  IF Len(cleanedRut) < 2 THEN FALSE
      ELSE IF Len(cleanedRut) > 20 THEN FALSE
      ELSE IF ~rutRegex(cleanedRut) THEN FALSE
      ELSE LET rutNumber == Match1(cleanedRut)
               providedVerificationDigit == Match2(cleanedRut)
               calculatedVerificationDigit ==
                 calculateVerificationDigit(Str(rutNumber)).val
           IN  IF Len(rutNumber) > 20 THEN FALSE
               ELSE IF calculatedVerificationDigit = << >> THEN FALSE
               ELSE calculatedVerificationDigit = providedVerificationDigit

\* the for loop from the last digit to the first, a '.' after every third
RECURSIVE legacyGroup(_, _, _, _)
legacyGroup(rutDigits, i, counter, formattedRut) ==
  IF i < 0 THEN formattedRut
  ELSE LET f == <<rutDigits[i + 1]>> \o formattedRut
           c == counter + 1
       IN  IF c = 3 /\ i # 0
           THEN legacyGroup(rutDigits, i - 1, 0, <<".">> \o f)
           ELSE legacyGroup(rutDigits, i - 1, c, f)

legacyFormatRut(x) ==
  LET cleanedRut == cleanRut(x)
  IN  IF ~legacyIsValidRut(Str(cleanedRut)) THEN << >>
      ELSE IF cleanedRut = << >> THEN << >>
      ELSE LET rutDigits == SubSeq(cleanedRut, 1, Len(cleanedRut) - 1)
               verificationDigit == <<cleanedRut[Len(cleanedRut)]>>
           IN  <<legacyGroup(rutDigits, Len(rutDigits) - 1, 0, << >>)
                 \o <<"-">> \o verificationDigit>>

\* the catch of the earlier validateRut is not reached: cleanRut, isValidRut
\* and formatRut raise nothing
legacyValidateRut(x) ==
  LET cleanedRut == cleanRut(x)
      isValid == legacyIsValidRut(Str(cleanedRut))
      invalid == [isValid |-> FALSE, formatted |-> << >>, raw |-> cleanedRut,
                  rutNumber |-> << >>, verificationDigit |-> << >>]
  IN  IF ~isValid THEN invalid
      ELSE IF ~rutRegex(cleanedRut) THEN invalid
      ELSE [isValid |-> TRUE,
            formatted |-> legacyFormatRut(Str(cleanedRut)),
            raw |-> cleanedRut,
            rutNumber |-> <<Match1(cleanedRut)>>,
            verificationDigit |-> <<Match2(cleanedRut)>>]

(***************************************************************************)
(* The inputs a caller passes.                                             *)
(***************************************************************************)
\* two digits, the check letter in lower case (the upper case comes back from
\* cleanRut and calculateVerificationDigit), another letter, the separators and
\* a whitespace character
Alphabet == {"1", "9", "k", "a", ".", "-", " "}

PadDigit == "1"

Pad(n) == [i \in 1..n |-> PadDigit]

FreeStrings == UNION {[1..m -> Alphabet] : m \in 0..MaxFree}

\* a run of the pad digit followed by the free characters, or between two
\* characters
TextInputs ==
  {Pad(n) \o w : n \in 0..MaxPad, w \in FreeStrings}
    \cup {<<h>> \o Pad(n) \o <<t>> : n \in 0..MaxPad, h \in Alphabet, t \in Alphabet}

Numbers == {0, 19, 19713741, 123456785, 123456789}

Inputs ==
  {Str(t) : t \in TextInputs}
    \cup {Num(n) : n \in Numbers}
    \cup {[kind |-> "boolean", text |-> << >>, num |-> b] : b \in {0, 1}}
    \cup {Other(k) : k \in {"null", "undefined", "object", "array", "throws"}}

(***************************************************************************)
(* The caller: one action per exported function, and the round trips that  *)
(* pass a result back in.                                                  *)
(***************************************************************************)
\* the generator has not been called; the clock stands at the epoch
Epoch == [year |-> 1970, month |-> 1, day |-> 1, hour |-> 0, minute |-> 0]

TfIdle ==
  /\ now = Epoch
  /\ length = << >>
  /\ code = << >>
  /\ error = << >>
  /\ earlier = << >>

\* the password validator has not been called
PwIdle ==
  /\ password = Other("undefined")
  /\ confirmPassword = Other("undefined")
  /\ level = << >>
  /\ pwOp = "none"
  /\ pwRet = << >>

\* no call of the RUT validator has been made
RutIdle(x) ==
  /\ rut = x
  /\ op = "none"
  /\ ret = << >>
  /\ threw = FALSE

Init ==
  /\ \E x \in Inputs : RutIdle(x)
  /\ TfIdle
  /\ PwIdle

CallCleanRut ==
  /\ op = "none"
  /\ op' = "cleanRut"
  /\ ret' = cleanRut(rut)
  /\ threw' = cleanRutRaises(rut)
  /\ UNCHANGED rut
  /\ UNCHANGED <<tfVars, pwVars>>

CallCalculateVerificationDigit ==
  /\ op = "none"
  /\ op' = "calculateVerificationDigit"
  /\ LET r == calculateVerificationDigit(rut)
     IN  ret' = r.val /\ threw' = r.threw
  /\ UNCHANGED rut
  /\ UNCHANGED <<tfVars, pwVars>>

CallIsValidRut ==
  \E requireVerificationDigit \in BOOLEAN :
    /\ op = "none"
    /\ op' = "isValidRut"
    /\ ret' = isValidRut(rut, requireVerificationDigit)
    /\ threw' = isValidRutRaises(rut, requireVerificationDigit)
    /\ UNCHANGED rut
    /\ UNCHANGED <<tfVars, pwVars>>

CallFormatRut ==
  \E requireVerificationDigit \in BOOLEAN :
    /\ op = "none"
    /\ op' = "formatRut"
    /\ ret' = formatRut(rut, requireVerificationDigit)
    /\ threw' = formatRutRaises(rut, requireVerificationDigit)
    /\ UNCHANGED rut
    /\ UNCHANGED <<tfVars, pwVars>>

CallValidateRut ==
  \E requireVerificationDigit \in BOOLEAN :
    /\ op = "none"
    /\ op' = "validateRut"
    /\ ret' = validateRut(rut, requireVerificationDigit)
    /\ threw' = validateRutRaises(rut, requireVerificationDigit)
    /\ UNCHANGED rut
    /\ UNCHANGED <<tfVars, pwVars>>

\* the next input is the text cleanRut returned
PassCleaned ==
  /\ op = "cleanRut"
  /\ rut' = Str(ret)
  /\ op' = "none" /\ ret' = << >> /\ threw' = FALSE
  /\ UNCHANGED <<tfVars, pwVars>>

\* the next input is the text formatRut returned
PassFormatted ==
  /\ op = "formatRut" /\ ret # << >>
  /\ rut' = Str(ret[1])
  /\ op' = "none" /\ ret' = << >> /\ threw' = FALSE
  /\ UNCHANGED <<tfVars, pwVars>>

\* the next input is the body just passed to calculateVerificationDigit with
\* the digit it returned appended, with or without a hyphen
PassComposed ==
  /\ op = "calculateVerificationDigit" /\ ~threw /\ ret # << >>
  /\ \E sep \in {<< >>, <<"-">>} : rut' = Str(String(rut).val \o sep \o ret)
  /\ op' = "none" /\ ret' = << >> /\ threw' = FALSE
  /\ UNCHANGED <<tfVars, pwVars>>

Next ==
  \/ CallCleanRut
  \/ CallCalculateVerificationDigit
  \/ CallIsValidRut
  \/ CallFormatRut
  \/ CallValidateRut
  \/ PassCleaned
  \/ PassFormatted
  \/ PassComposed

Spec == Init /\ [][Next]_vars

(***************************************************************************)
(* Properties.                                                             *)
(***************************************************************************)
\* the original text of the current input (an input that has one)
HasText == ~String(rut).threw

Text == String(rut).val

\* the canonical form of the current input, its body and its last character
Canon == cleanRut(rut)

Body == SubSeq(Canon, 1, Len(Canon) - 1)

Last == SubSeq(Canon, Len(Canon), Len(Canon))

Contains(s, c) == \E i \in 1..Len(s) : s[i] = c

\* '--', '..', '.-' or '-.' somewhere in s
TwoSeparatorsInARow(s) ==
  \E i \in 1..(Len(s) - 1) : s[i] \in {".", "-"} /\ s[i + 1] \in {".", "-"}

CheckChars == DigitSet \cup {"K"}

\* the canonical form is digits followed by one check character that is the
\* verification digit of the digits before it
ChecksumMatches ==
  /\ Len(Canon) >= 2
  /\ \A i \in 1..Len(Body) : Body[i] \in DigitSet
  /\ Last[1] \in CheckChars
  /\ calculateVerificationDigit(Str(Body)).val = Last

\* C1: isValidRut returns true exactly when the original text has none of
\* '--', '..', '.-', '-.', the canonical form has 2 to 20 characters and is
\* digits followed by a digit or 'K', the text has a '.' or '-' or the body has
\* 8 or more digits, and the verification digit of the body is the last
\* character.
C1_IsValidRutExactly ==
  (op = "isValidRut" /\ HasText) =>
    (ret <=> /\ ~TwoSeparatorsInARow(Text)
             /\ Len(Canon) >= 2 /\ Len(Canon) <= 20
             /\ (Contains(Text, ".") \/ Contains(Text, "-") \/ Len(Body) >= 8)
             /\ ChecksumMatches)

\* an input without separator is accepted
C1_Witness ==
  /\ op = "isValidRut" /\ HasText /\ ret
  /\ ~Contains(Text, ".") /\ ~Contains(Text, "-")

\* C2: an input without '.' and '-' whose body has 7 or fewer digits is
\* rejected, also when its last character is the verification digit of the body.
C2_AmbiguousRejected ==
  (/\ op = "isValidRut" /\ HasText
   /\ ~Contains(Text, ".") /\ ~Contains(Text, "-")
   /\ Len(Canon) - 1 <= 7)
    => ~ret

\* a 7-digit body with its own verification digit and no separator is rejected
C2_Witness ==
  /\ op = "isValidRut" /\ HasText /\ ~ret
  /\ ~Contains(Text, ".") /\ ~Contains(Text, "-")
  /\ Len(Canon) = 8 /\ ChecksumMatches

\* C3: an input whose original text has '--', '..', '.-' or '-.' anywhere is
\* rejected, whatever its canonical form.
C3_MalformedRejected ==
  (op = "isValidRut" /\ HasText /\ TwoSeparatorsInARow(Text)) => ~ret

\* a malformed text whose canonical form passes the checksum is rejected
C3_Witness ==
  /\ op = "isValidRut" /\ HasText /\ ~ret
  /\ TwoSeparatorsInARow(Text) /\ ChecksumMatches /\ Len(Canon) <= 20

\* the reference check character of a digit string b: digit i from the least
\* significant end (0-based) times the weight [2,3,4,5,6,7][i mod 6]
Weights == <<2, 3, 4, 5, 6, 7>>

ReferenceSum(b) ==
  LET acc[i \in 0..Len(b)] ==
        IF i = 0 THEN 0
        ELSE acc[i - 1] + DigitValue[b[Len(b) + 1 - i]] * Weights[((i - 1) % 6) + 1]
  IN  acc[Len(b)]

ReferenceCheck(b) ==
  LET r == 11 - (ReferenceSum(b) % 11)
  IN  IF r = 11 THEN <<"0">> ELSE IF r = 10 THEN <<"K">> ELSE <<DigitChars[r + 1]>>

\* C4: for a string of 1 to 20 digits calculateVerificationDigit returns the
\* reference check character (weights 2..7 cycling from the least significant
\* digit, 11 - sum mod 11, 11 -> '0', 10 -> 'K'), and otherwise the digit is in
\* 1..9.
C4_CheckDigitIsReference ==
  (/\ op = "calculateVerificationDigit" /\ HasText
   /\ Len(Text) >= 1 /\ Len(Text) <= 20
   /\ \A i \in 1..Len(Text) : Text[i] \in DigitSet)
    => /\ ~threw
       /\ ret = ReferenceCheck(Text)
       /\ (ret \notin {<<"0">>, <<"K">>}
             => 11 - (ReferenceSum(Text) % 11) \in 1..9)

\* a 20-digit body, which uses the weights beyond the first two cycles
C4_Witness ==
  /\ op = "calculateVerificationDigit" /\ HasText /\ ~threw
  /\ Len(Text) = 20 /\ ret # << >>

\* C5: calculateVerificationDigit returns one character of 0..9, K for a text
\* of 1 to 20 digits, and the empty string, without raising, for a text that
\* has a non-digit, is empty or is longer than 20.
C5_CheckDigitTotal ==
  (op = "calculateVerificationDigit" /\ HasText) =>
    /\ ~threw
    /\ IF /\ Len(Text) >= 1 /\ Len(Text) <= 20
          /\ \A i \in 1..Len(Text) : Text[i] \in DigitSet
       THEN Len(ret) = 1 /\ ret[1] \in CheckChars
       ELSE ret = << >>

\* 21 digits yield the empty string
C5_Witness ==
  /\ op = "calculateVerificationDigit" /\ HasText /\ ~threw
  /\ Len(Text) = 21 /\ (\A i \in 1..Len(Text) : Text[i] \in DigitSet)
  /\ ret = << >>

\* the text is digits b (MinBody..19 of them), the separator sep, and the
\* verification digit of b
IsBodyWithCheck(t, sep, MinBody) ==
  LET n == Len(t) - Len(sep) - 1
      b == SubSeq(t, 1, n)
  IN  /\ n >= MinBody /\ n <= 19
      /\ \A i \in 1..n : t[i] \in DigitSet
      /\ SubSeq(t, n + 1, n + Len(sep)) = sep
      /\ calculateVerificationDigit(Str(b)).val = <<t[Len(t)]>>

\* C6: a body of 1 to 19 digits, '-' and the body's verification digit is
\* accepted; a body of 8 to 19 digits directly followed by its verification
\* digit is accepted.
C6_BodyWithCheckAccepted ==
  (op = "isValidRut" /\ rut.kind = "string") =>
    /\ IsBodyWithCheck(rut.text, <<"-">>, 1) => ret
    /\ IsBodyWithCheck(rut.text, << >>, 8) => ret

\* a 19-digit body, a hyphen and its verification digit: 20 canonical characters
C6_Witness ==
  /\ op = "isValidRut" /\ rut.kind = "string" /\ ret
  /\ Len(rut.text) = 21 /\ IsBodyWithCheck(rut.text, <<"-">>, 19)

\* C7: for a valid input x, f = formatRut(x) is valid, has the canonical form of
\* x, and formatRut(f) = f.
C7_FormatRoundTrip ==
  (op = "formatRut" /\ isValidRut(rut, FALSE)) =>
    /\ ret # << >>
    /\ LET f == Str(ret[1])
       IN  /\ isValidRut(f, FALSE)
           /\ cleanRut(f) = Canon
           /\ formatRut(f, FALSE) = ret

\* formatRut applied to a text it returned (two dots or more) returns it again
C7_Witness ==
  /\ op = "formatRut" /\ rut.kind = "string"
  /\ ret = <<rut.text>>
  /\ Len(Canon) >= 8

\* C8: formatRut returns null exactly when isValidRut returns false (and so does
\* the earlier formatRut with the earlier isValidRut).
C8_FormatNullIffInvalid ==
  op = "formatRut" =>
    /\ (ret = << >>) <=> ~isValidRut(rut, FALSE)
    /\ (legacyFormatRut(rut) = << >>) <=> ~legacyIsValidRut(rut)

\* an ambiguous input whose checksum matches is not formatted
C8_Witness ==
  /\ op = "formatRut" /\ HasText /\ ret = << >>
  /\ ChecksumMatches /\ Len(Canon) <= 8
  /\ ~Contains(Text, ".") /\ ~Contains(Text, "-")

\* the part of a formatted text before its '-', and the number of its dots
Grouped(f) == SubSeq(f, 1, Len(f) - 2)

IsDot(c) == c = "."

IsNotDot(c) == c # "."

\* C9: for a valid input with body b and check character c, formatRut returns
\* the digits of b in order, in groups of exactly 3 from the right with a
\* leftmost group of 1 to 3, joined by '.', then '-' and c: ceil(len(b)/3) - 1
\* dots and one '-'.
C9_FormatGroups ==
  (op = "formatRut" /\ ret # << >>) =>
    LET f == ret[1]
        g == Grouped(f)
    IN  /\ Len(f) >= 3
        /\ SubSeq(f, Len(f) - 1, Len(f)) = <<"-">> \o Last
        /\ SelectSeq(g, IsNotDot) = Body
        /\ \A i \in 1..Len(g) : (g[i] = ".") <=> ((Len(g) + 1 - i) % 4 = 0)
        /\ Len(SelectSeq(g, IsDot)) = ((Len(Body) + 2) \div 3) - 1
        /\ g[1] # "."

\* a body of 9 digits: three full groups
C9_Witness ==
  /\ op = "formatRut" /\ ret # << >>
  /\ Len(Body) = 9 /\ Len(ret[1]) = 13

\* C10: the result of validateRut has formatted non-null, rutNumber and
\* verificationDigit defined exactly when isValid is true.
C10_ResultFieldsIffValid ==
  op = "validateRut" =>
    /\ ret.isValid <=> ret.formatted # << >>
    /\ ret.isValid <=> ret.rutNumber # << >>
    /\ ret.isValid <=> ret.verificationDigit # << >>

\* a valid input in which only the separator tells the body from the digit
C10_Witness ==
  /\ op = "validateRut" /\ ret.isValid
  /\ ret.formatted # << >> /\ ret.rutNumber # << >> /\ ret.verificationDigit # << >>
  /\ Len(ret.raw) <= 8

\* C11: for every input x, validateRut(x).raw is cleanRut(x) whether x is valid
\* or not, and validateRut(x).isValid is isValidRut(x); for a valid x, rutNumber
\* followed by verificationDigit is raw and formatted is formatRut(x).  The
\* earlier validateRut stands in the same relation to the earlier functions.
C11_ResultAgreesWithParts ==
  op = "validateRut" =>
    /\ ret.raw = cleanRut(rut)
    /\ ret.isValid = isValidRut(rut, TRUE)
    /\ ret.isValid =>
         /\ ret.rutNumber[1] \o ret.verificationDigit[1] = ret.raw
         /\ ret.formatted = formatRut(rut, TRUE)
    /\ LET l == legacyValidateRut(rut)
       IN  /\ l.raw = cleanRut(rut)
           /\ l.isValid = legacyIsValidRut(rut)
           /\ l.isValid =>
                /\ l.rutNumber[1] \o l.verificationDigit[1] = l.raw
                /\ l.formatted = legacyFormatRut(rut)

\* a valid input written with separators, and an invalid one whose canonical
\* form differs from its text
C11_Witness ==
  /\ op = "validateRut"
  /\ HasText /\ Canon # Text /\ Canon # << >>
  /\ ret.isValid
  /\ Len(ret.rutNumber[1]) >= 4

\* C12: isValidRut, formatRut and validateRut raise for no input, a value whose
\* conversion to text fails included: such an input is reported as false, as
\* null, or as a result with isValid false.
C12_NeverRaise ==
  op \in {"isValidRut", "formatRut", "validateRut"} =>
    /\ ~threw
    /\ ~HasText =>
         /\ op = "isValidRut" => ret = FALSE
         /\ op = "formatRut" => ret = << >>
         /\ op = "validateRut" => ~ret.isValid /\ ret.formatted = << >>

C12_Witness ==
  /\ op = "validateRut"
  /\ ~HasText
  /\ ~threw
  /\ ~ret.isValid

\* C13: cleanRut raises for no input; it returns the empty string for null,
\* for undefined, and for a value whose conversion to text fails.
C13_CleanRutNeverRaises ==
  op = "cleanRut" =>
    /\ ~threw
    /\ (rut.kind \in {"null", "undefined"} \/ ~HasText) => ret = << >>

C13_Witness ==
  /\ op = "cleanRut"
  /\ ~HasText
  /\ ~threw
  /\ ret = << >>

\* the text s without '.', '-' and whitespace, the other characters in order
\* and in upper case (written from the claim, one character at a time)
UpperCased(c) ==
  IF \E j \in 1..Len(LowerCase) : LowerCase[j] = c
  THEN UpperCase[CHOOSE j \in 1..Len(LowerCase) : LowerCase[j] = c]
  ELSE c

Stripped(s) ==
  LET f[i \in 0..Len(s)] ==
        IF i = 0 THEN << >>
        ELSE IF s[i] \in {".", "-"} \cup WhiteSpace THEN f[i - 1]
        ELSE Append(f[i - 1], UpperCased(s[i]))
  IN  f[Len(s)]

\* C14: for every input other than null and undefined that has a text, cleanRut
\* returns the text with every '.', '-' and whitespace character removed and
\* the other characters kept in order and upper-cased; cleaning the result
\* again changes nothing, and the result holds no '.', '-', whitespace or
\* lower-case ASCII letter.
C14_CleanRutStripsAndUppercases ==
  (op = "cleanRut" /\ rut.kind \notin {"null", "undefined"} /\ HasText) =>
    /\ ret = Stripped(Text)
    /\ cleanRut(Str(ret)) = ret
    /\ \A i \in 1..Len(ret) :
         ret[i] \notin ({".", "-"} \cup WhiteSpace \cup Range(LowerCase))

C14_Witness ==
  /\ op = "cleanRut"
  /\ rut.kind = "string"
  /\ Contains(Text, " ") /\ Contains(Text, ".") /\ Contains(Text, "k")
  /\ ret = <<"K">>

\* only digits, optionally ended by a digit or 'K': /^\d*[\dK]?$/
DigitsOptionalCheck(s) ==
  /\ \A i \in 1..(Len(s) - 1) : IsDigit(s[i])
  /\ s # << >> => (IsDigit(s[Len(s)]) \/ s[Len(s)] = "K")

\* C15 as stated: for every input, the canonical identifier produced by
\* cleanRut, and returned as validateRut(...).raw, holds only ASCII digits,
\* optionally ended by a digit or 'K'.  cleanRut('a') is 'A'.
C15_CanonicalOnlyDigits ==
  /\ op = "cleanRut" => DigitsOptionalCheck(ret)
  /\ op = "validateRut" => DigitsOptionalCheck(ret.raw)

\* C15, amended: for every input that isValidRut accepts, the canonical
\* identifier produced by cleanRut, and returned as validateRut(...).raw, is
\* one or more ASCII digits ended by a digit or 'K'.
C15_CanonicalOfValidOnlyDigits ==
  /\ (op = "cleanRut" /\ isValidRut(rut, TRUE)) =>
       (Len(ret) >= 2 /\ DigitsOptionalCheck(ret))
  /\ (op = "validateRut" /\ ret.isValid) =>
       (Len(ret.raw) >= 2 /\ DigitsOptionalCheck(ret.raw))

C15_Witness ==
  /\ op = "validateRut"
  /\ ret.isValid
  /\ HasText /\ Contains(Text, "k")
  /\ ret.raw[Len(ret.raw)] = "K"

(***************************************************************************)
(* The minutely two-factor code generator (two-factor-generator.ts).       *)
(*                                                                         *)
(* A JavaScript number that exceeds 32 bits is kept as two limbs,          *)
(* [hi, lo] for hi * 10^6 + lo with 0 <= lo < 10^6; the numbers of the     *)
(* generator stay below 2^53, where the arithmetic of doubles is exact.    *)
(***************************************************************************)
\* the longest length a caller passes
MaxTfLength == 10

\* the digits of n in two places: month: "2-digit" and the like
TwoDigits(n) == <<DigitChars[(n \div 10) + 1], DigitChars[(n % 10) + 1]>>

\* toLocaleString("en-CA", { timeZone: "America/Santiago", ..., hour12: false })
\* of the wall clock t: "2024-01-15, 14:30"
toLocaleString(t) ==
  Decimal(t.year) \o <<"-">> \o TwoDigits(t.month) \o <<"-">> \o TwoDigits(t.day)
    \o <<",", " ">> \o TwoDigits(t.hour) \o <<":">> \o TwoDigits(t.minute)

\* .replace(/[-:, ]/g, '')
DateSeparators == {"-", ":", ",", " "}

NoDateSeparator(c) == c \notin DateSeparators

RemoveDateSeparators(s) == SelectSeq(s, NoDateSeparator)

\* the value of a string of digits that fits one limb
DigitsValue(s) ==
  LET v[i \in 0..Len(s)] ==
        IF i = 0 THEN 0 ELSE v[i - 1] * 10 + DigitValue[s[i]]
  IN  v[Len(s)]

\* parseInt(s) of a string of digits
parseIntDigits(s) ==
  IF Len(s) <= 6 THEN [hi |-> 0, lo |-> DigitsValue(s)]
  ELSE [hi |-> DigitsValue(SubSeq(s, 1, Len(s) - 6)),
        lo |-> DigitsValue(SubSeq(s, Len(s) - 5, Len(s)))]

\* value * m + a
MultiplyAdd(value, m, a) ==
  LET low == value.lo * m + a
  IN  [hi |-> value.hi * m + (low \div 1000000), lo |-> low % 1000000]

\* s.padStart(n, '0')
padStart(s, n) ==
  IF Len(s) >= n THEN s ELSE [i \in 1..(n - Len(s)) |-> "0"] \o s

\* Number.prototype.toString of a non-negative integer
NumberToString(n) ==
  IF n.hi = 0 THEN Decimal(n.lo) ELSE Decimal(n.hi) \o padStart(Decimal(n.lo), 6)

\* the slip s.substring(0, start): the leading characters are returned
substringToStart(s, start) == SubSeq(s, 1, start)

\* the slip s.substring(0, length): as many characters, taken from the front
substringHead(s, start) == SubSeq(s, 1, Len(s) - start)

\* s.substring(start) for 0 <= start <= s.length
substring(s, start) == SubSeq(s, start + 1, Len(s))

multiplier == 97

addend == 31

\* the slip (value + addend) * multiplier
mixedAddendFirst(value) == MultiplyAdd(value, multiplier, addend * multiplier)

\* the slip of a round multiplier: value * 100 + addend
mixedRoundMultiplier(value) == MultiplyAdd(value, 100, addend)

\* const mixed = (value * multiplier + addend)
mixed(value) == MultiplyAdd(value, multiplier, addend)

\* the slip of leaving out the upper limit
LengthBelowRange(n) == n < 4

\* length < 4 || length > 8
LengthOutOfRange(n) == n < 4 \/ n > 8

\* the default parameter: length: number = 4
LengthArgument(arg) == IF arg = << >> THEN 4 ELSE arg[1]

\* [threw, message, val] for the wall clock t and the argument arg (<< >> when
\* the caller passes none)
generateMinutelyTwoFactor(t, arg) ==
  LET n == LengthArgument(arg)
  IN  IF LengthOutOfRange(n)
      THEN [threw |-> TRUE,
            message |-> <<"Length must be between 4 and 8.">>,
            val |-> << >>]
      ELSE LET nowText == RemoveDateSeparators(toLocaleString(t))
               value == parseIntDigits(nowText)
               result == NumberToString(mixed(value))
           IN  [threw |-> FALSE,
                message |-> << >>,
                val |-> IF Len(result) < n THEN <<padStart(result, n)>>
                        ELSE <<substring(result, Len(result) - n)>>]

(***************************************************************************)
(* The callers of the generator and the passing of time.                   *)
(***************************************************************************)
Years == {2024, 2025}

Months == {1, 12}

Days == {1, 11}

Hours == {0, 23}

MinutesOfHour == {0, 59}

Timestamps ==
  [year : Years, month : Months, day : Days, hour : Hours, minute : MinutesOfHour]

\* the place of a wall-clock minute in the order of time
ClockOrder(t) ==
  (((((t.year - 1970) * 12 + t.month) * 31 + t.day) * 24 + t.hour) * 60) + t.minute

\* the arguments a caller passes: none, or a length from -1 up
LengthArguments == {<< >>} \cup {<<n>> : n \in (-1)..MaxTfLength}

\* the last call of the current minute, when it returned a code
LastCall ==
  IF code # << >>
  THEN <<[at |-> now, length |-> length[1], code |-> code[1]]>>
  ELSE earlier

InitTwoFactor ==
  /\ now \in Timestamps
  /\ length = << >>
  /\ code = << >>
  /\ error = << >>
  /\ earlier = << >>
  /\ RutIdle(Other("undefined"))
  /\ PwIdle

\* a call of generateMinutelyTwoFactor in the current minute
Generate ==
  \E arg \in LengthArguments :
    LET r == generateMinutelyTwoFactor(now, arg)
    IN  /\ length' = <<LengthArgument(arg)>>
        /\ code' = r.val
        /\ error' = r.message
        /\ earlier' = LastCall
        /\ UNCHANGED <<now, rutVars, pwVars>>

\* the wall clock reaches a later minute
Tick ==
  /\ \E t \in Timestamps : ClockOrder(t) > ClockOrder(now) /\ now' = t
  /\ earlier' = LastCall
  /\ length' = << >>
  /\ code' = << >>
  /\ error' = << >>
  /\ UNCHANGED <<rutVars, pwVars>>

NextTwoFactor == Generate \/ Tick

SpecTwoFactor == InitTwoFactor /\ [][NextTwoFactor]_vars

(***************************************************************************)
(* Properties of the generator.                                            *)
(***************************************************************************)
\* a call has been made in the current minute and has returned a code
Returned == length # << >> /\ code # << >>

\* 10^n
PowerOfTen(n) ==
  LET p[i \in 0..n] == IF i = 0 THEN 1 ELSE 10 * p[i - 1]
  IN  p[n]

\* the last n digits, n <= 8, of the timestamp yyyyMMddHHmm, as a number
TimestampLast(t, n) ==
  (t.month * 1000000 + t.day * 10000 + t.hour * 100 + t.minute) % PowerOfTen(n)

\* (T * 97 + 31) mod 10^n, n <= 8, computed from the last n digits of T
ReferenceLast(t, n) ==
  LET a == TimestampLast(t, n)
      M == PowerOfTen(n)
  IN  (((((a * 9) % M) * 10 + a * 7) % M) + 31) % M

\* the n digits of the number v < 10^n, leading zeros included
FixedWidth(v, n) ==
  [i \in 1..n |-> DigitChars[((v \div PowerOfTen(n - i)) % 10) + 1]]

\* C16: for every length in 4..8 and every minute, generateMinutelyTwoFactor
\* returns a string of exactly length characters, all of them decimal digits.
C16_CodeHasLengthDigits ==
  (length # << >> /\ length[1] \in 4..8) =>
    /\ code # << >>
    /\ Len(code[1]) = length[1]
    /\ \A i \in 1..Len(code[1]) : code[1][i] \in Range(DigitChars)

C16_Witness ==
  /\ Returned
  /\ length[1] = 8
  /\ Len(code[1]) = 8

\* C17: generateMinutelyTwoFactor raises 'Length must be between 4 and 8.' for
\* every length below 4 or above 8 and returns no code then; for every length
\* from 4 to 8 it does not raise.
C17_RaisesOutsideRange ==
  length # << >> =>
    IF length[1] < 4 \/ length[1] > 8
    THEN error = <<"Length must be between 4 and 8.">> /\ code = << >>
    ELSE error = << >>

C17_Witness ==
  /\ length # << >>
  /\ length[1] = 9
  /\ error = <<"Length must be between 4 and 8.">>
  /\ code = << >>

\* C18: the code returned for the length n is a function of the current minute
\* timestamp T = yyyyMMddHHmm and of n only: the last n decimal digits of
\* T * 97 + 31 (a number of more than n digits, so that no padding occurs);
\* two calls in the same minute with the same n return the same code.
C18_CodeIsLastDigits ==
  Returned =>
    /\ code[1] = FixedWidth(ReferenceLast(now, length[1]), length[1])
    /\ \A e \in Range(earlier) :
         (e.at = now /\ e.length = length[1]) => e.code = code[1]

C18_Witness ==
  /\ Returned
  /\ earlier # << >>
  /\ earlier[1].at = now
  /\ earlier[1].length = length[1]
  /\ earlier[1].code = code[1]

MaxPwFree == 2

Plain(text) == [text |-> text, arg |-> << >>]

Template(text, n) == [text |-> text, arg |-> <<n>>]

DEFAULT_MIN_LENGTHS == [low |-> 6, medium |-> 8, high |-> 12]

BASE_LEVEL_REQUIREMENTS ==
  [low    |-> [maxLength |-> 64, requireUppercase |-> FALSE,
               requireLowercase |-> FALSE, requireNumber |-> FALSE,
               requireSymbol |-> FALSE, allowOnlyAlphanumeric |-> TRUE],
   medium |-> [maxLength |-> 64, requireUppercase |-> TRUE,
               requireLowercase |-> FALSE, requireNumber |-> FALSE,
               requireSymbol |-> FALSE, allowOnlyAlphanumeric |-> TRUE],
   high   |-> [maxLength |-> 64, requireUppercase |-> TRUE,
               requireLowercase |-> TRUE, requireNumber |-> TRUE,
               requireSymbol |-> TRUE, allowOnlyAlphanumeric |-> FALSE]]

\* the default parameter: level: SecurityLevel = "medium"
LevelArgument(levelArg) == IF levelArg = << >> THEN "medium" ELSE levelArg[1]

\* customLengths?.[level] ?? DEFAULT_MIN_LENGTHS[level]; customLengths is a
\* function from some of the levels to numbers
getLevelRequirements(lv, customLengths) ==
  [base |-> BASE_LEVEL_REQUIREMENTS[lv],
   minLength |-> IF customLengths # << >> /\ lv \in DOMAIN customLengths[1]
                 THEN customLengths[1][lv]
                 ELSE DEFAULT_MIN_LENGTHS[lv]]

\* String.prototype.trim
trim(s) ==
  LET kept == {i \in 1..Len(s) : s[i] \notin WhiteSpace}
  IN  IF kept = {} THEN << >>
      ELSE SubSeq(s, CHOOSE i \in kept : \A j \in kept : i <= j,
                     CHOOSE i \in kept : \A j \in kept : i >= j)

\* String(password) is not guarded by a try
cleanPassword(x) ==
  IF x.kind \in {"null", "undefined"} THEN << >> ELSE trim(String(x).val)

\* /(.)\1{2,}/.test(s): the texts hold no line terminator
hasRepeatedChars(s) ==
  \E i \in 1..(Len(s) - 2) : s[i] = s[i + 1] /\ s[i + 1] = s[i + 2]

\* /[!@#$%^&*()_+[\]{};':"\\|,.<>/?`~\-=]/ without the backquote, which a
\* string of this module cannot hold; no password of the model has one
SymbolChars ==
  {"!", "@", "#", "$", "%", "^", "&", "*", "(", ")", "_", "+", "[", "]", "{",
   "}", ";", "'", ":", "\"", "\\", "|", ",", ".", "<", ">", "/", "?", "~",
   "-", "="}

Letters == Range(LowerCase) \cup Range(UpperCase)

hasUppercase(s) == \E i \in 1..Len(s) : s[i] \in Range(UpperCase)

hasLowercase(s) == \E i \in 1..Len(s) : s[i] \in Range(LowerCase)

hasNumber(s) == \E i \in 1..Len(s) : s[i] \in DigitSet

hasSymbol(s) == \E i \in 1..Len(s) : s[i] \in SymbolChars

\* the slip /[a-zA-Z0-9]+/, the pattern without its anchors
isAlphanumericUnanchored(s) ==
  \E i \in 1..Len(s) : s[i] \in (Letters \cup DigitSet)

\* /^[a-zA-Z0-9]+$/.test(s)
isAlphanumeric(s) ==
  Len(s) >= 1 /\ \A i \in 1..Len(s) : s[i] \in (Letters \cup DigitSet)

\* if (condition) errors.push(e)
PushIf(condition, e) == IF condition THEN <<e>> ELSE << >>

Error(type, message) == [type |-> type, message |-> message]

\* errors.map((e) => e.message)
Messages(errors) == [i \in 1..Len(errors) |-> errors[i].message]

createValidationResult(isValid, errors, lv) ==
  [isValid |-> isValid, errors |-> errors, level |-> lv,
   missing |-> Messages(errors)]

\* the rules after the empty check, in the order of the pushes
RuleErrors(cleanedPassword, requirements) ==
  PushIf(Len(cleanedPassword) < requirements.minLength,
         Error("TOO_SHORT",
               Template("At least ${requirements.minLength} characters",
                        requirements.minLength)))
  \o PushIf(Len(cleanedPassword) > requirements.base.maxLength,
            Error("TOO_LONG",
                  Template("Maximum ${requirements.maxLength} characters",
                           requirements.base.maxLength)))
  \o PushIf(requirements.base.requireUppercase /\ ~hasUppercase(cleanedPassword),
            Error("MISSING_UPPERCASE", Plain("At least one uppercase letter")))
  \o PushIf(requirements.base.requireLowercase /\ ~hasLowercase(cleanedPassword),
            Error("MISSING_LOWERCASE", Plain("At least one lowercase letter")))
  \o PushIf(requirements.base.requireNumber /\ ~hasNumber(cleanedPassword),
            Error("MISSING_NUMBER", Plain("At least one number")))
  \o PushIf(requirements.base.requireSymbol /\ ~hasSymbol(cleanedPassword),
            Error("MISSING_SYMBOL", Plain("At least one symbol")))
  \o PushIf(requirements.base.allowOnlyAlphanumeric
              /\ ~isAlphanumeric(cleanedPassword),
            Error("NOT_ALPHANUMERIC", Plain("Only letters and numbers allowed")))
  \o PushIf(hasRepeatedChars(cleanedPassword),
            Error("REPEATED_CHARS",
                  Plain("No repeated characters (3+ consecutive)")))

\* the slip of pushing the EMPTY error and going on to the other rules
validatePasswordNoEarlyReturn(x, levelArg, customLengths) ==
  LET lv == LevelArgument(levelArg)
  IN  IF x.kind # "string"
      THEN createValidationResult(
             FALSE, <<Error("NON_STRING_INPUT", Plain("Input must be a string"))>>, lv)
      ELSE LET cleanedPassword == cleanPassword(x)
               requirements == getLevelRequirements(lv, customLengths)
               errors ==
                 PushIf(cleanedPassword = << >>,
                        Error("EMPTY", Plain("Password cannot be empty")))
                 \o RuleErrors(cleanedPassword, requirements)
           IN  createValidationResult(errors = << >>, errors, lv)

validatePassword(x, levelArg, customLengths) ==
  LET lv == LevelArgument(levelArg)
  IN  IF x.kind # "string"
      THEN createValidationResult(
             FALSE, <<Error("NON_STRING_INPUT", Plain("Input must be a string"))>>, lv)
      ELSE LET cleanedPassword == cleanPassword(x)
               requirements == getLevelRequirements(lv, customLengths)
               errors == RuleErrors(cleanedPassword, requirements)
           IN  IF cleanedPassword = << >>
               THEN createValidationResult(
                      FALSE, <<Error("EMPTY", Plain("Password cannot be empty"))>>, lv)
               ELSE createValidationResult(errors = << >>, errors, lv)

isValidPassword(x, levelArg, customLengths) ==
  validatePassword(x, levelArg, customLengths).isValid

(***************************************************************************)
(* The earlier password validator, src/src/password-validator/             *)
(* password-validator.ts: no typeof check, the text of any value is        *)
(* validated; no customLengths and no errors list.                         *)
(***************************************************************************)
legacyValidatePassword(x, levelArg) ==
  LET lv == LevelArgument(levelArg)
      cleanedPassword == cleanPassword(x)
      requirements == getLevelRequirements(lv, << >>)
      missing == Messages(RuleErrors(cleanedPassword, requirements))
  IN  IF cleanedPassword = << >>
      THEN [isValid |-> FALSE,
            missing |-> <<Plain("Password cannot be empty")>>,
            level |-> lv]
      ELSE [isValid |-> missing = << >>, missing |-> missing, level |-> lv]

legacyIsValidPassword(x, levelArg) == legacyValidatePassword(x, levelArg).isValid

(***************************************************************************)
(* validatePasswordMatch and passwordsMatch: the same text in both         *)
(* versions of the validator.  error is << >> for null.                    *)
(***************************************************************************)
\* the slip of leaving out cleaned1.length > 0
validatePasswordMatchAllowsEmpty(x1, x2) ==
  LET isMatch == cleanPassword(x1) = cleanPassword(x2)
  IN  [isMatch |-> isMatch,
       error |-> IF isMatch THEN << >> ELSE <<"Passwords do not match">>]

validatePasswordMatch(x1, x2) ==
  LET cleaned1 == cleanPassword(x1)
      cleaned2 == cleanPassword(x2)
      isMatch == cleaned1 = cleaned2 /\ Len(cleaned1) > 0
  IN  [isMatch |-> isMatch,
       error |-> IF isMatch THEN << >> ELSE <<"Passwords do not match">>]

passwordsMatch(x1, x2) == validatePasswordMatch(x1, x2).isMatch

(***************************************************************************)
(* The passwords a caller passes and the calls.                            *)
(***************************************************************************)
PwAlphabet == {"a", "A", "1", "!", " "}

\* lengths of the leading run, around the limits 6, 8, 12 and 64
PwPadLengths == {0, 4, 6, 10, 62, 63}

\* a run without three equal characters in a row
PwPad(n) == [i \in 1..n |-> IF i % 2 = 1 THEN "x" ELSE "y"]

PwFreeStrings == UNION {[1..m -> PwAlphabet] : m \in 0..MaxPwFree}

\* the example of each security level in the documentation
ExamplePasswords ==
  {<<"a", "b", "c", "1", "2", "3">>,
   <<"P", "a", "s", "s", "w", "o", "r", "d", "1", "2", "3">>,
   <<"M", "y", "P", "@", "s", "s", "w", "0", "r", "d", "1", "2", "3", "!">>}

PwTexts ==
  {PwPad(n) \o w : n \in PwPadLengths, w \in PwFreeStrings}
    \cup ExamplePasswords

\* the non-string inputs of the tests: null, undefined, {}, [], 123456789,
\* true, false, Symbol("test"), new Date(); and the number 123456
NonStringPasswords ==
  {Other(k) : k \in {"null", "undefined", "object", "array", "symbol", "date"}}
    \cup {Num(n) : n \in {123456, 123456789}}
    \cup {[kind |-> "boolean", text |-> << >>, num |-> b] : b \in {0, 1}}

PasswordInputs == {Str(t) : t \in PwTexts} \cup NonStringPasswords

Levels == {"low", "medium", "high"}

LevelArguments == {<< >>} \cup {<<lv>> : lv \in Levels}

\* customLengths: none, or a minimum length for one level
CustomLengthConfigs ==
  {<< >>} \cup {<<[k \in {lv} |-> n]>> : lv \in Levels, n \in {4, 10}}

\* the confirmations a caller passes with the password x: the same value, its
\* text, its text between two spaces, and some other values
Confirmations(x) ==
  {x, Str(String(x).val), Str(<<" ">> \o String(x).val \o <<" ">>),
   Str(<< >>), Str(<<" ">>), Str(<<"a">>), Other("null"), Other("undefined"),
   Other("array"), Num(123456789)}

InitPassword ==
  /\ password \in PasswordInputs
  /\ confirmPassword = Other("undefined")
  /\ level \in LevelArguments
  /\ pwOp = "none"
  /\ pwRet = << >>
  /\ RutIdle(Other("undefined"))
  /\ TfIdle

CallValidatePassword ==
  \E customLengths \in CustomLengthConfigs :
    /\ pwOp = "none"
    /\ pwOp' = "validatePassword"
    /\ pwRet' = validatePassword(password, level, customLengths)
    /\ UNCHANGED <<password, confirmPassword, level, rutVars, tfVars>>

CallIsValidPassword ==
  \E customLengths \in CustomLengthConfigs :
    /\ pwOp = "none"
    /\ pwOp' = "isValidPassword"
    /\ pwRet' = isValidPassword(password, level, customLengths)
    /\ UNCHANGED <<password, confirmPassword, level, rutVars, tfVars>>

CallLegacyValidatePassword ==
  /\ pwOp = "none"
  /\ pwOp' = "legacyValidatePassword"
  /\ pwRet' = legacyValidatePassword(password, level)
  /\ UNCHANGED <<password, confirmPassword, level, rutVars, tfVars>>

CallLegacyIsValidPassword ==
  /\ pwOp = "none"
  /\ pwOp' = "legacyIsValidPassword"
  /\ pwRet' = legacyIsValidPassword(password, level)
  /\ UNCHANGED <<password, confirmPassword, level, rutVars, tfVars>>

CallValidatePasswordMatch ==
  \E x2 \in Confirmations(password) :
    /\ pwOp = "none"
    /\ pwOp' = "validatePasswordMatch"
    /\ confirmPassword' = x2
    /\ pwRet' = validatePasswordMatch(password, x2)
    /\ UNCHANGED <<password, level, rutVars, tfVars>>

CallPasswordsMatch ==
  \E x2 \in Confirmations(password) :
    /\ pwOp = "none"
    /\ pwOp' = "passwordsMatch"
    /\ confirmPassword' = x2
    /\ pwRet' = passwordsMatch(password, x2)
    /\ UNCHANGED <<password, level, rutVars, tfVars>>

NextPassword ==
  \/ CallValidatePassword
  \/ CallIsValidPassword
  \/ CallLegacyValidatePassword
  \/ CallLegacyIsValidPassword
  \/ CallValidatePasswordMatch
  \/ CallPasswordsMatch

SpecPassword == InitPassword /\ [][NextPassword]_vars

(***************************************************************************)
(* Properties of the password validator.                                   *)
(***************************************************************************)
\* the level the caller asked for
RequestedLevel == LevelArgument(level)

\* C20 as stated: for every non-string password (null, undefined, object,
\* array, number, boolean, symbol, Date) and every level, validatePassword
\* returns isValid false, a missing list that contains 'Password cannot be
\* empty' and the requested level, and isValidPassword returns false.
C20_NonStringReportedEmpty ==
  password.kind # "string" =>
    /\ pwOp \in {"validatePassword", "legacyValidatePassword"} =>
         /\ pwRet.isValid = FALSE
         /\ Plain("Password cannot be empty") \in Range(pwRet.missing)
         /\ pwRet.level = RequestedLevel
    /\ pwOp \in {"isValidPassword", "legacyIsValidPassword"} => pwRet = FALSE

\* the text form of a value, trimmed: one leading or trailing whitespace
\* character is dropped at a time; null and undefined have the empty text
RECURSIVE Trimmed(_)
Trimmed(s) ==
  IF s = << >> THEN s
  ELSE IF Head(s) \in WhiteSpace THEN Trimmed(Tail(s))
  ELSE IF s[Len(s)] \in WhiteSpace THEN Trimmed(SubSeq(s, 1, Len(s) - 1))
  ELSE s

TrimmedText(x) ==
  IF x.kind \in {"null", "undefined"} THEN << >> ELSE Trimmed(String(x).val)

OnlyWhiteSpace(x) ==
  x.kind = "string" /\ \A i \in 1..Len(x.text) : x.text[i] \in WhiteSpace

\* C22: for every password and level, validatePassword returns isValid true
\* exactly when its missing list is empty, and the requested level ('medium'
\* when none is given); an empty or whitespace-only password yields the single
\* entry 'Password cannot be empty' and no other rule.
C22_ValidIffNothingMissing ==
  pwOp \in {"validatePassword", "legacyValidatePassword"} =>
    /\ pwRet.isValid <=> (pwRet.missing = << >>)
    /\ pwRet.level = (IF level = << >> THEN "medium" ELSE level[1])
    /\ OnlyWhiteSpace(password) =>
         pwRet.missing = <<Plain("Password cannot be empty")>>

\* a password of two spaces, no level given
C22_Witness ==
  /\ pwOp = "validatePassword"
  /\ OnlyWhiteSpace(password) /\ Len(password.text) = 2
  /\ level = << >>
  /\ pwRet.level = "medium"
  /\ pwRet.missing = <<Plain("Password cannot be empty")>>

(***************************************************************************)
(* Further properties of the RUT validator.                                *)
(***************************************************************************)
\* some '-' of s is not followed by exactly one final character
HyphenMisplaced(s) == \E i \in 1..Len(s) : s[i] = "-" /\ i # Len(s) - 1

\* C23 as stated: isValidRut returns false for every input in which a '-' is
\* not followed by exactly one final character, be it a trailing '-' or a '-'
\* with two or more characters after it.  isValidRut('19-') is true.
C23_MisplacedHyphenRejected ==
  (op = "isValidRut" /\ HasText /\ HyphenMisplaced(Text)) => ret = FALSE

\* C24: the requireVerificationDigit argument has no effect: isValidRut,
\* formatRut and validateRut return the same for true and for false, and an
\* ambiguous input is rejected under both values.
C24_ArgumentHasNoEffect ==
  /\ op = "isValidRut" =>
       /\ ret = isValidRut(rut, TRUE) /\ ret = isValidRut(rut, FALSE)
       /\ (HasText /\ rutRegex(Canon) /\ Ambiguous(Text, Body)) => ret = FALSE
  /\ op = "formatRut" =>
       ret = formatRut(rut, TRUE) /\ ret = formatRut(rut, FALSE)
  /\ op = "validateRut" =>
       ret = validateRut(rut, TRUE) /\ ret = validateRut(rut, FALSE)

\* an ambiguous input whose checksum matches
C24_Witness ==
  /\ op = "isValidRut"
  /\ HasText /\ rutRegex(Canon) /\ Ambiguous(Text, Body)
  /\ ChecksumMatches
  /\ ret = FALSE

(***************************************************************************)
(* Further properties of the generator.                                    *)
(***************************************************************************)
\* the last m characters of s
LastChars(s, m) == SubSeq(s, Len(s) - m + 1, Len(s))

\* C25: within one minute, for lengths m < n in 4..8, the code for m is the
\* last m characters of the code for n.
C25_ShorterCodeIsSuffix ==
  (Returned /\ earlier # << >> /\ earlier[1].at = now) =>
    /\ earlier[1].length < length[1] =>
         earlier[1].code = LastChars(code[1], earlier[1].length)
    /\ length[1] < earlier[1].length =>
         code[1] = LastChars(earlier[1].code, length[1])

C25_Witness ==
  /\ Returned
  /\ earlier # << >>
  /\ earlier[1].at = now
  /\ earlier[1].length = 4
  /\ length[1] = 8
  /\ earlier[1].code = LastChars(code[1], 4)

(***************************************************************************)
(* The RUT validator and the canonical form.                               *)
(***************************************************************************)
\* the canonical form of the current input, passed as a text
CanonInput == Str(Canon)

HasSeparatorChar == Contains(Text, ".") \/ Contains(Text, "-")

\* C26 as stated: for every input x, isValidRut(x) = isValidRut(cleanRut(x)),
\* and for a valid x validateRut(x).raw is accepted by isValidRut and by
\* formatRut.  '1-9' is valid and its canonical form '19' is not.
C26_ValidityPreservedByCleaning ==
  /\ op = "isValidRut" => ret = isValidRut(CanonInput, FALSE)
  /\ (op = "validateRut" /\ ret.isValid) =>
       /\ isValidRut(Str(ret.raw), FALSE)
       /\ formatRut(Str(ret.raw), FALSE) # << >>

\* C26, amended: isValidRut(x) = isValidRut(cleanRut(x)) for every x that has
\* none of '--', '..', '.-', '-.' and that either has no '.' or '-' or has a
\* body of 8 or more digits; for a valid x with a separator and a body of 7 or
\* fewer digits, validateRut(x).raw is rejected by isValidRut and by formatRut,
\* and for a valid x with a body of 8 or more digits it is accepted by both.
\* The earlier validator satisfies the equality for every input.
C26_CleaningKeepsValidityOfLongBodies ==
  /\ op = "isValidRut" =>
       /\ ~HasText => ret = isValidRut(CanonInput, FALSE)
       /\ (HasText /\ ~TwoSeparatorsInARow(Text)
             /\ (~HasSeparatorChar \/ Len(Body) >= 8)) =>
            ret = isValidRut(CanonInput, FALSE)
       /\ legacyIsValidRut(rut) = legacyIsValidRut(CanonInput)
  /\ (op = "validateRut" /\ ret.isValid) =>
       IF Len(ret.rutNumber[1]) <= 7
       THEN /\ ~isValidRut(Str(ret.raw), FALSE)
            /\ formatRut(Str(ret.raw), FALSE) = << >>
       ELSE /\ isValidRut(Str(ret.raw), FALSE)
            /\ formatRut(Str(ret.raw), FALSE) = ret.formatted

\* a valid input with a separator and a short body: its raw is rejected
C26_Witness ==
  /\ op = "validateRut"
  /\ ret.isValid
  /\ Len(ret.rutNumber[1]) <= 7
  /\ ~isValidRut(Str(ret.raw), FALSE)

\* C27: every input accepted by isValidRut is accepted by the earlier
\* validator and by its build, and the three return the same result for every
\* input that has none of '--', '..', '.-', '-.' and that either contains '.'
\* or '-' or has a body of 8 or more digits.
C27_NarrowsEarlierValidator ==
  op = "isValidRut" =>
    /\ ret => (legacyIsValidRut(rut) /\ distIsValidRut(rut))
    /\ (HasText /\ ~TwoSeparatorsInARow(Text)
          /\ (HasSeparatorChar \/ Len(Body) >= 8)) =>
         /\ ret = legacyIsValidRut(rut)
         /\ ret = distIsValidRut(rut)

\* an accepted text of 8 or more body digits without a separator
C27_Witness ==
  /\ op = "isValidRut"
  /\ ret = TRUE
  /\ HasText
  /\ ~HasSeparatorChar
  /\ Len(Body) >= 8
  /\ legacyIsValidRut(rut)
  /\ distIsValidRut(rut)

(***************************************************************************)
(* Whitespace and the RUT validator.                                       *)
(***************************************************************************)
\* s with its whitespace characters deleted
WithoutWhiteSpace(s) ==
  LET f[i \in 0..Len(s)] ==
        IF i = 0 THEN << >>
        ELSE IF s[i] \in WhiteSpace THEN f[i - 1]
        ELSE Append(f[i - 1], s[i])
  IN  f[Len(s)]

\* s with one whitespace character inserted after its first i characters
WithWhiteSpaceAt(s, i) ==
  SubSeq(s, 1, i) \o <<" ">> \o SubSeq(s, i + 1, Len(s))

\* texts that differ from s in whitespace only
WhiteSpaceVariants(s) ==
  {WithoutWhiteSpace(s)} \cup {WithWhiteSpaceAt(s, i) : i \in 0..Len(s)}

\* C28 as stated: inserting or deleting whitespace at any positions of a text
\* input never changes the result of isValidRut.  '1. .9' is accepted and
\* '1..9' is rejected.
C28_WhiteSpaceInsignificant ==
  (op = "isValidRut" /\ rut.kind = "string") =>
    \A y \in WhiteSpaceVariants(rut.text) : ret = isValidRut(Str(y), FALSE)

\* C28, amended: inserting or deleting whitespace never changes the result of
\* isValidRut between two texts that both have none of '--', '..', '.-',
\* '-.'; a text that has one of them is rejected, whatever the result for the
\* text with whitespace between the two separators.
C28_WhiteSpaceInsignificantUnlessPair ==
  (op = "isValidRut" /\ rut.kind = "string") =>
    \A y \in WhiteSpaceVariants(rut.text) :
      /\ (~TwoSeparatorsInARow(rut.text) /\ ~TwoSeparatorsInARow(y)) =>
           ret = isValidRut(Str(y), FALSE)
      /\ TwoSeparatorsInARow(y) => ~isValidRut(Str(y), FALSE)

\* an accepted text with whitespace between its digits
C28_Witness ==
  /\ op = "isValidRut"
  /\ rut.kind = "string"
  /\ ret = TRUE
  /\ \E i \in 2..(Len(rut.text) - 1) : rut.text[i] \in WhiteSpace
  /\ WithoutWhiteSpace(rut.text) # rut.text
  /\ isValidRut(Str(WithoutWhiteSpace(rut.text)), FALSE)

(***************************************************************************)
(* The security levels.                                                    *)
(***************************************************************************)
\* the current call found the password valid
FoundValid ==
  \/ pwOp \in {"isValidPassword", "legacyIsValidPassword"} /\ pwRet = TRUE
  \/ pwOp \in {"validatePassword", "legacyValidatePassword"} /\ pwRet.isValid

\* the password is valid at level lv for some validator and minimum lengths
ValidAt(lv) ==
  \/ \E customLengths \in CustomLengthConfigs :
       \/ isValidPassword(password, <<lv>>, customLengths)
       \/ validatePassword(password, <<lv>>, customLengths).isValid
  \/ legacyIsValidPassword(password, <<lv>>)
  \/ legacyValidatePassword(password, <<lv>>).isValid

\* C29: no password is valid at level 'high' and also valid at level 'medium'
\* or 'low'.
C29_HighDisjointFromLower ==
  FoundValid =>
    /\ RequestedLevel = "high" => (~ValidAt("medium") /\ ~ValidAt("low"))
    /\ RequestedLevel \in {"medium", "low"} => ~ValidAt("high")

\* a password found valid at level 'high'
C29_Witness ==
  /\ pwOp = "isValidPassword"
  /\ pwRet = TRUE
  /\ RequestedLevel = "high"
  /\ password.kind = "string"
  /\ hasSymbol(password.text)

(***************************************************************************)
(* The two rejections of isValidRut after the structural match.            *)
(***************************************************************************)
\* the execution of isValidRut on the current input passes the conversion,
\* the separator test, the two length checks and the structural match
PassesStructuralMatch ==
  /\ HasText
  /\ ~Malformed(Text)
  /\ ~(Len(Canon) < 2)
  /\ ~TooLong(Canon)
  /\ rutRegex(Canon)

\* C30: in every execution of isValidRut that passes the canonical length
\* check and the structural match, the body has between 1 and 19 digits and
\* calculateVerificationDigit(body) is one character, so neither the rejection
\* 'body length > 20' nor 'check digit could not be computed' is taken.
C30_LaterRejectionsNeverTaken ==
  (op = "isValidRut" /\ PassesStructuralMatch) =>
    LET rutNumber == Match1(Canon)
        calculatedVerificationDigit == calculateVerificationDigit(Str(rutNumber))
    IN  /\ Len(rutNumber) \in 1..19
        /\ \A i \in 1..Len(rutNumber) : rutNumber[i] \in DigitSet
        /\ ~(Len(rutNumber) > 20)
        /\ ~calculatedVerificationDigit.threw
        /\ calculatedVerificationDigit.val # << >>
        /\ Len(calculatedVerificationDigit.val) = 1
        /\ calculatedVerificationDigit.val[1] \in CheckChars

\* an execution with the longest canonical form that passes: 19 body digits
C30_Witness ==
  /\ op = "isValidRut"
  /\ PassesStructuralMatch
  /\ Len(Canon) = 20
  /\ Len(Match1(Canon)) = 19

=============================================================================
